---------------------------- MODULE Spec2Model ----------------------------
(* A model of solar-orionjs (src/index.js): a client of the SolarWinds     *)
(* Information Service.  The Client holds a configuration object, each of  *)
(* its seven operations builds one HTTP request from it, and the response  *)
(* normalizer _parseRequestResults turns the transport's (err, res, body)  *)
(* into the envelope handed to the caller's callback.                      *)
(*                                                                         *)
(* JavaScript values are tagged records [t |-> tag, v |-> content]; a      *)
(* string is a sequence of one-character strings, an object a function     *)
(* from property names to values, a reference an index into the heap.      *)
EXTENDS Integers, Sequences, FiniteSets, TLC

VARIABLES heap, options, calls, requests, last

vars == <<heap, options, calls, requests, last>>

(***************************************************************************)
(* Bounds of the model                                                     *)
(***************************************************************************)
MaxCalls == 2

MaxListLen == 2

(***************************************************************************)
(* JavaScript values                                                       *)
(***************************************************************************)
Undefined == [t |-> "undefined", v |-> 0]

Null == [t |-> "null", v |-> 0]

NaN == [t |-> "nan", v |-> 0]

Bool(b) == [t |-> "boolean", v |-> b]

Num(n) == [t |-> "number", v |-> n]

Str(s) == [t |-> "string", v |-> s]

List(s) == [t |-> "list", v |-> s]

Obj(f) == [t |-> "object", v |-> f]

Ref(i) == [t |-> "ref", v |-> i]

Empty == [n \in {} |-> Undefined]

\* x != undefined (loose): false for undefined and for null only
LooseNotUndefined(x) == x.t \notin {"undefined", "null"}

\* ToBoolean, as applied by !x and by the operands of &&
Truthy(x) ==
    CASE x.t \in {"undefined", "null", "nan"} -> FALSE
      [] x.t = "boolean" -> x.v
      [] x.t = "number" -> x.v # 0
      [] x.t = "string" -> Len(x.v) > 0
      [] OTHER -> TRUE

Digits == <<"0", "1", "2", "3", "4", "5", "6", "7", "8", "9">>

IsDigit(c) == \E d \in 1..10 : Digits[d] = c

DigitValue(c) == (CHOOSE d \in 1..10 : Digits[d] = c) - 1

RECURSIVE TrimLeft(_)
TrimLeft(s) == IF s # <<>> /\ Head(s) = " " THEN TrimLeft(Tail(s)) ELSE s

RECURSIVE TrimRight(_)
TrimRight(s) ==
    IF s # <<>> /\ s[Len(s)] = " " THEN TrimRight(SubSeq(s, 1, Len(s) - 1)) ELSE s

RECURSIVE DecimalValue(_)
DecimalValue(s) ==
    IF s = <<>> THEN 0
    ELSE 10 * DecimalValue(SubSeq(s, 1, Len(s) - 1)) + DigitValue(s[Len(s)])

\* ToNumber of a string: blanks trimmed, "" is 0, decimal digits are their
\* value, anything else is NaN
StringToNumber(s) ==
    LET u == TrimRight(TrimLeft(s)) IN
    IF \A k \in 1..Len(u) : IsDigit(u[k]) THEN Num(DecimalValue(u)) ELSE NaN

\* x == n for a number n: a string or boolean operand is converted to a
\* number first; undefined, null and NaN equal no number
LooseEqualsNumber(x, n) ==
    CASE x.t = "number" -> x.v = n
      [] x.t = "string" -> StringToNumber(x.v) = Num(n)
      [] x.t = "boolean" -> (IF x.v THEN 1 ELSE 0) = n
      [] OTHER -> FALSE

\* reading a property of undefined or null raises a TypeError
CanRead(x) == x.t \notin {"undefined", "null"}

\* x.name for a value whose properties can be read
Get(x, name) ==
    CASE x.t = "object" -> IF name \in DOMAIN x.v THEN x.v[name] ELSE Undefined
      [] x.t \in {"list", "string"} -> IF name = "length" THEN Num(Len(x.v)) ELSE Undefined
      [] OTHER -> Undefined

(***************************************************************************)
(* The response normalizer                                                 *)
(***************************************************************************)
ResUnchecked(res) == res

\* res = res != undefined ? res : {}
DefaultRes(res) == IF LooseNotUndefined(res) THEN res ELSE Obj(Empty)

StrictSuccess(err, res) ==
    err.t = "undefined" /\ Get(res, "statusCode") = Num(200)

\* !err && res.statusCode == 200
IsSuccess(err, res) ==
    ~Truthy(err) /\ LooseEqualsNumber(Get(res, "statusCode"), 200)

ResultsKeepEmpty(body) ==
    IF LooseNotUndefined(body) /\ Truthy(Get(body, "results"))
        /\ ~LooseEqualsNumber(Get(Get(body, "results"), "length"), 0)
    THEN Get(body, "results")
    ELSE IF LooseNotUndefined(body) THEN body
    ELSE Undefined

\* the three branches that compute results on the success path
SuccessResults(body) ==
    IF LooseNotUndefined(body) /\ Truthy(Get(body, "results"))
    THEN IF LooseEqualsNumber(Get(Get(body, "results"), "length"), 0)
         THEN Null
         ELSE Get(body, "results")
    ELSE IF LooseNotUndefined(body) THEN body
    ELSE Undefined

ErrOrBody(err, body) == IF Truthy(err) THEN err ELSE body

\* err != undefined ? err : body
FailureErr(err, body) == IF LooseNotUndefined(err) THEN err ELSE body

StatusOf(res) ==
    [code |-> Get(res, "statusCode"), message |-> Get(res, "statusMessage")]

\* The outcome of one run: whether it raised, which branch it took and the
\* envelopes it passed to the callback, in order.
_parseRequestResults(err, res0, body) ==
    LET res == DefaultRes(res0) IN
    IF ~CanRead(res)
    THEN [threw |-> TRUE, path |-> "none", cb |-> <<>>]
    ELSE IF IsSuccess(err, res)
    THEN [threw |-> FALSE, path |-> "success",
          cb |-> << [err |-> Undefined,
                     results |-> SuccessResults(body),
                     status |-> StatusOf(res)] >>]
    ELSE [threw |-> FALSE, path |-> "failure",
          cb |-> << [err |-> FailureErr(err, body),
                     results |-> Undefined,
                     status |-> StatusOf(res)] >>]

NotRun == [threw |-> FALSE, path |-> "none", cb |-> <<>>]

(***************************************************************************)
(* Values the transport can hand to the normalizer                         *)
(***************************************************************************)
OK == Str(<<"O", "K">>)

NotFound == Str(<<"N", "o", "t", " ", "F", "o", "u", "n", "d">>)

Boom == Str(<<"b", "o", "o", "m">>)

ECONNREFUSED == Str(<<"E", "C", "O", "N", "N", "R", "E", "F", "U", "S", "E", "D">>)

ErrValues ==
    {Undefined, Null, ECONNREFUSED, Obj([code |-> ECONNREFUSED]),
     Str(<<>>), Num(0), Bool(FALSE)}

CodeValues ==
    {Undefined, Num(200), Num(404), Num(500),
     Str(<<"2", "0", "0">>), Str(<<"2", "0", "0", " ">>), Str(<<"4", "0", "4">>)}

MessageValues == {Undefined, OK}

ResValues ==
    {Undefined, Null, Obj(Empty)}
        \cup {Obj([statusCode |-> c, statusMessage |-> m]) :
                 c \in CodeValues, m \in MessageValues}

Row == Obj([a |-> Num(1)])

Lists == UNION {[1..n -> {Row}] : n \in 0..MaxListLen}

BodyValues ==
    {Undefined, Null, Boom, Str(<<>>), Num(0), Obj([NodeID |-> Num(5)])}
        \cup {Obj([results |-> List(l)]) : l \in Lists}
        \cup {Obj([results |-> r]) :
                 r \in {Null, Undefined, Num(0), Num(5), Str(<<>>), Str(<<"a", "b">>)}}

(***************************************************************************)
(* The Client: configuration objects live on a heap and are shared by      *)
(* reference; auth objects are replaced whole, never changed in place.     *)
(***************************************************************************)
Clients == {1, 2}

Chars127 == <<"1", "2", "7", ".", "0", ".", "0", ".", "1">>

Admin == Str(<<"a", "d", "m", "i", "n">>)

\* var defaultOptions = { server: "127.0.0.1", port: 17778, auth: {...} }
defaultOptions == Ref(0)

DefaultConfig ==
    [server |-> Str(Chars127), port |-> Num(17778),
     auth |-> Obj([username |-> Admin, password |-> Str(<<>>)])]

\* a configuration object the caller built
CallerConfig ==
    [server |-> Str(<<"o", "r", "i", "o", "n">>), port |-> Num(443),
     auth |-> Obj([username |-> Str(<<"o", "p">>), password |-> Str(<<"p", "w">>)])]

InitHeap == [i \in {0, 1} |-> IF i = 0 THEN DefaultConfig ELSE CallerConfig]

(***************************************************************************)
(* Address and request-options builders                                    *)
(***************************************************************************)
RECURSIVE NumberToString(_)
NumberToString(n) ==
    IF n < 10 THEN <<Digits[n + 1]>>
    ELSE NumberToString(n \div 10) \o <<Digits[(n % 10) + 1]>>

\* the string a template literal makes of a value
ToStringJS(x) ==
    CASE x.t = "string" -> x.v
      [] x.t = "number" -> NumberToString(x.v)
      [] x.t = "null" -> <<"n", "u", "l", "l">>
      [] OTHER -> <<"u", "n", "d", "e", "f", "i", "n", "e", "d">>

\* o.name for a reference o to a configuration object
Field(o, name) ==
    IF name \in DOMAIN heap[o.v] THEN heap[o.v][name] ELSE Undefined

Https == <<"h", "t", "t", "p", "s", ":", "/", "/">>

JsonPath ==
    <<"/", "S", "o", "l", "a", "r", "W", "i", "n", "d", "s", "/",
      "I", "n", "f", "o", "r", "m", "a", "t", "i", "o", "n",
      "S", "e", "r", "v", "i", "c", "e", "/", "v", "3", "/", "J", "s", "o", "n", "/">>

_gfaDefault(o) ==
    LET fa == Https \o ToStringJS(Field(defaultOptions, "server")) \o <<":">>
                  \o ToStringJS(Field(defaultOptions, "port")) \o JsonPath
    IN [fa |-> fa,
        q |-> fa \o <<"Q", "u", "e", "r", "y">>,
        c |-> fa \o <<"C", "r", "e", "a", "t", "e", "/">>,
        i |-> fa \o <<"I", "n", "v", "o", "k", "e", "/">>,
        bd |-> fa \o <<"B", "u", "l", "k", "D", "e", "l", "e", "t", "e">>]

_gfa(o) ==
    LET fa == Https \o ToStringJS(Field(o, "server")) \o <<":">>
                  \o ToStringJS(Field(o, "port")) \o JsonPath
    IN [fa |-> fa,
        q |-> fa \o <<"Q", "u", "e", "r", "y">>,
        c |-> fa \o <<"C", "r", "e", "a", "t", "e", "/">>,
        i |-> fa \o <<"I", "n", "v", "o", "k", "e", "/">>,
        bd |-> fa \o <<"B", "u", "l", "k", "D", "e", "l", "e", "t", "e">>]

_cspr(o, json) ==
    [json |-> json, auth |-> Field(o, "auth"), rejectUnauthorized |-> FALSE]

(***************************************************************************)
(* Arguments the caller passes                                             *)
(***************************************************************************)
SwisUri == Str(<<"s", "w", "i", "s", ":", "/", "/", "h", "/", "N", "=", "1">>)

SwisUri2 == Str(<<"s", "w", "i", "s", ":", "/", "/", "h", "/", "N", "=", "2">>)

Verb == Str(<<"O", "r", "i", "o", "n", ".", "N", "o", "d", "e", "s", "/", "U", "n", "m", "a", "n", "a", "g", "e">>)

ObjectName == Str(<<"O", "r", "i", "o", "n", ".", "P", "o", "l", "l", "e", "r", "s">>)

Queries == {Obj([query |-> Str(<<"S", "E", "L", "E", "C", "T">>)])}

Patches == {Obj([Caption |-> Str(<<"n", "e", "w">>)])}

VerbArgs == {List(<<Str(<<"N", ":", "1">>), Bool(FALSE)>>)}

DataObjects == {Obj([PollerType |-> Str(<<"F">>)])}

UriArrays == {List(<<SwisUri, SwisUri2>>)}

\* the transport's outcomes in the whole-client specification
TransportOutcomes ==
    { <<Undefined, Obj([statusCode |-> Num(200), statusMessage |-> OK]),
        Obj([results |-> List(<<Row>>)])>>,
      <<ECONNREFUSED, Undefined, Undefined>>,
      <<Null, Obj([statusCode |-> Num(404), statusMessage |-> NotFound]), Undefined>> }

(***************************************************************************)
(* The Client                                                              *)
(***************************************************************************)
\* this.options = options !== undefined ? options : defaultOptions
Orion(o) == IF o # Undefined THEN o ELSE defaultOptions

getOptions(c) == options[c]

ConstructorArgs == {Undefined, Ref(1)}

Init ==
    /\ heap = InitHeap
    /\ options \in [Clients -> {Orion(a) : a \in ConstructorArgs}]
    /\ calls = <<>>
    /\ requests = <<>>
    /\ last = [call |-> 0, err |-> Undefined, res |-> Undefined, body |-> Undefined,
               out |-> NotRun]

Call(c, op, arg, target, threw) ==
    [client |-> c, op |-> op, arg |-> arg, target |-> target, threw |-> threw]

Request(method, url, opts) ==
    [call |-> Len(calls) + 1, method |-> method, url |-> url, options |-> opts,
     done |-> FALSE, ncb |-> 0]

\* Reading options.server of an undefined or null this.options raises a
\* TypeError before any request is made.
query(c, q) ==
    /\ Len(calls) < MaxCalls
    /\ IF CanRead(options[c])
       THEN /\ requests' = Append(requests,
                   Request("POST", _gfa(options[c]).q, _cspr(options[c], q)))
            /\ calls' = Append(calls, Call(c, "query", q, Undefined, "none"))
       ELSE /\ requests' = requests
            /\ calls' = Append(calls, Call(c, "query", q, Undefined, "TypeError"))
    /\ UNCHANGED <<heap, options, last>>

update(c, u, swisUri) ==
    /\ Len(calls) < MaxCalls
    /\ IF CanRead(options[c])
       THEN /\ requests' = Append(requests,
                   Request("POST", _gfa(options[c]).fa \o ToStringJS(swisUri),
                           _cspr(options[c], u)))
            /\ calls' = Append(calls, Call(c, "update", u, swisUri, "none"))
       ELSE /\ requests' = requests
            /\ calls' = Append(calls, Call(c, "update", u, swisUri, "TypeError"))
    /\ UNCHANGED <<heap, options, last>>

read(c, swisUri) ==
    /\ Len(calls) < MaxCalls
    /\ IF CanRead(options[c])
       THEN /\ requests' = Append(requests,
                   Request("GET", _gfa(options[c]).fa \o ToStringJS(swisUri),
                           _cspr(options[c], Obj(Empty))))
            /\ calls' = Append(calls, Call(c, "read", Undefined, swisUri, "none"))
       ELSE /\ requests' = requests
            /\ calls' = Append(calls, Call(c, "read", Undefined, swisUri, "TypeError"))
    /\ UNCHANGED <<heap, options, last>>

\* _gfa(this.options).c is evaluated first, then the undeclared identifier
\* orionObject is read, which raises a ReferenceError: request.post is never
\* reached.
create(c, data, object) ==
    /\ Len(calls) < MaxCalls
    /\ requests' = requests
    /\ calls' = Append(calls,
           Call(c, "create", data, object,
                IF CanRead(options[c]) THEN "ReferenceError" ELSE "TypeError"))
    /\ UNCHANGED <<heap, options, last>>

invoke(c, verb, data) ==
    /\ Len(calls) < MaxCalls
    /\ IF CanRead(options[c])
       THEN /\ requests' = Append(requests,
                   Request("POST", _gfa(options[c]).i \o ToStringJS(verb),
                           _cspr(options[c], data)))
            /\ calls' = Append(calls, Call(c, "invoke", data, verb, "none"))
       ELSE /\ requests' = requests
            /\ calls' = Append(calls, Call(c, "invoke", data, verb, "TypeError"))
    /\ UNCHANGED <<heap, options, last>>

remove(c, swisUri) ==
    /\ Len(calls) < MaxCalls
    /\ IF CanRead(options[c])
       THEN /\ requests' = Append(requests,
                   Request("DELETE", _gfa(options[c]).fa \o ToStringJS(swisUri),
                           _cspr(options[c], Obj(Empty))))
            /\ calls' = Append(calls, Call(c, "remove", Undefined, swisUri, "none"))
       ELSE /\ requests' = requests
            /\ calls' = Append(calls, Call(c, "remove", Undefined, swisUri, "TypeError"))
    /\ UNCHANGED <<heap, options, last>>

removeBulk(c, swisUris) ==
    /\ Len(calls) < MaxCalls
    /\ IF CanRead(options[c])
       THEN /\ requests' = Append(requests,
                   Request("POST", _gfa(options[c]).bd,
                           _cspr(options[c], Obj([uris |-> swisUris]))))
            /\ calls' = Append(calls, Call(c, "removeBulk", swisUris, Undefined, "none"))
       ELSE /\ requests' = requests
            /\ calls' = Append(calls, Call(c, "removeBulk", swisUris, Undefined, "TypeError"))
    /\ UNCHANGED <<heap, options, last>>

setOptions(c, o) ==
    /\ options' = [options EXCEPT ![c] = o]
    /\ UNCHANGED <<heap, calls, requests, last>>

\* The caller assigns a property of the object getOptions() returned.
AssignField(c, name, value) ==
    /\ CanRead(getOptions(c))
    /\ heap' = [heap EXCEPT ![getOptions(c).v][name] = value]
    /\ UNCHANGED <<options, calls, requests, last>>

\* The transport hands request i's outcome to the arrow function given to
\* request.post/get/del, which runs _parseRequestResults with the caller's
\* callback.
Deliver(i, err, res, body) ==
    /\ ~requests[i].done
    /\ LET out == _parseRequestResults(err, res, body) IN
       /\ requests' = [requests EXCEPT ![i].done = TRUE, ![i].ncb = @ + Len(out.cb)]
       /\ last' = [call |-> requests[i].call, err |-> err, res |-> res, body |-> body,
                   out |-> out]
    /\ UNCHANGED <<heap, options, calls>>

OptionArgs == {Undefined, Ref(1)} \cup {getOptions(d) : d \in Clients}

Assignments ==
    { <<"server", Str(<<"e", "v", "i", "l">>)>> }

Next ==
    \/ \E c \in Clients, q \in Queries : query(c, q)
    \/ \E c \in Clients, u \in Patches : update(c, u, SwisUri)
    \/ \E c \in Clients : read(c, SwisUri)
    \/ \E c \in Clients, d \in DataObjects : create(c, d, ObjectName)
    \/ \E c \in Clients, d \in VerbArgs : invoke(c, Verb, d)
    \/ \E c \in Clients : remove(c, SwisUri)
    \/ \E c \in Clients, l \in UriArrays : removeBulk(c, l)
    \/ \E c \in Clients, o \in OptionArgs : setOptions(c, o)
    \/ \E c \in Clients, a \in Assignments : AssignField(c, a[1], a[2])
    \/ \E i \in 1..Len(requests), t \in TransportOutcomes : Deliver(i, t[1], t[2], t[3])

Spec == Init /\ [][Next]_vars

(***************************************************************************)
(* The normalizer on its own: every (err, res, body) of the value sets     *)
(***************************************************************************)
NormInit ==
    /\ heap = InitHeap
    /\ options = [c \in Clients |-> defaultOptions]
    /\ calls = <<>>
    /\ requests = <<>>
    /\ \E e \in ErrValues, r \in ResValues, b \in BodyValues :
           last = [call |-> 0, err |-> e, res |-> r, body |-> b, out |-> NotRun]

Normalize ==
    /\ last.out = NotRun
    /\ last' = [last EXCEPT !.out = _parseRequestResults(last.err, last.res, last.body)]
    /\ UNCHANGED <<heap, options, calls, requests>>

NormNext == Normalize

NormSpec == NormInit /\ [][NormNext]_vars

Ran == last.out # NotRun

Delivered == Ran /\ ~last.out.threw /\ Len(last.out.cb) = 1

Envelope == last.out.cb[1]

StatusCode == IF CanRead(last.res) THEN Get(last.res, "statusCode") ELSE Undefined

(***************************************************************************)
(* Claims about the normalizer: C4 is checked on the outcomes the transport *)
(* delivers under Spec, the others on every triple under NormSpec          *)
(***************************************************************************)
ErrAbsent(x) == x.t \in {"undefined", "null"}

HasResultsList(b) ==
    b.t = "object" /\ "results" \in DOMAIN b.v /\ b.v["results"].t = "list"

HasResultsField(b) == b.t = "object" /\ "results" \in DOMAIN b.v

\* C4 (as claimed): whenever a transport error is present or the status code
\* is not 200, the envelope's err is neither undefined nor null; on every
\* success err is undefined.
C4_ErrPresentOnFailure ==
    Delivered =>
        /\ (~ErrAbsent(last.err) \/ StatusCode # Num(200)) => ~ErrAbsent(Envelope.err)
        /\ last.out.path = "success" => Envelope.err = Undefined

\* C5 (as claimed): the success path is taken if and only if no transport
\* error was supplied and the status code is exactly the number 200.
C5_SuccessIffStrict200 ==
    Delivered =>
        (last.out.path = "success" <=> (ErrAbsent(last.err) /\ StatusCode = Num(200)))

\* C5 (amended): the success path is taken, with err = undefined, if and only
\* if the supplied error is falsy (undefined, null, false, 0, the empty
\* string) and the status code is the number 200 or a string that converts to
\* the number 200; every other triple takes the failure path.
FalsyErrors == {Undefined, Null, NaN, Bool(FALSE), Num(0), Str(<<>>)}

ConvertsTo200(c) ==
    \/ c = Num(200)
    \/ c.t = "string" /\ StringToNumber(c.v) = Num(200)

C5_SuccessIffLoose200 ==
    /\ Ran => Delivered
    /\ Delivered =>
        /\ last.out.path \in {"success", "failure"}
        /\ last.out.path = "success" <=> (last.err \in FalsyErrors /\ ConvertsTo200(StatusCode))
        /\ last.out.path = "success" => Envelope.err = Undefined

C5_Witness ==
    /\ Delivered
    /\ last.out.path = "success"
    /\ StatusCode = Str(<<"2", "0", "0">>)
    /\ last.err = Num(0)

\* C6: on the success path results depends on the body alone: a body with a
\* results list gives null for the empty list and the list itself otherwise;
\* a body that exists without a results field gives the body verbatim; no
\* body gives undefined.
C6_SuccessResults ==
    (Delivered /\ last.out.path = "success") =>
        /\ HasResultsList(last.body) =>
               Envelope.results =
                   IF Len(last.body.v["results"].v) = 0 THEN Null ELSE last.body.v["results"]
        /\ (~ErrAbsent(last.body) /\ ~HasResultsField(last.body)) =>
               Envelope.results = last.body
        /\ ErrAbsent(last.body) => Envelope.results = Undefined

C6_Witness ==
    /\ Delivered
    /\ last.out.path = "success"
    /\ last.body = Obj([results |-> List(<<>>)])
    /\ Envelope.results = Null

C10_StatusAlways ==
    Ran =>
        /\ Delivered
        /\ Envelope.status =
               IF ErrAbsent(last.res)
               THEN [code |-> Undefined, message |-> Undefined]
               ELSE [code |-> Get(last.res, "statusCode"),
                     message |-> Get(last.res, "statusMessage")]

C10_Witness ==
    /\ Delivered
    /\ last.res = Undefined
    /\ last.err = ECONNREFUSED
    /\ Envelope = [err |-> ECONNREFUSED, results |-> Undefined,
                   status |-> [code |-> Undefined, message |-> Undefined]]

(***************************************************************************)
(* Claims about the Client, checked under Spec                             *)
(***************************************************************************)
\* the call a step makes, if it makes one
NewCall == calls'[Len(calls')]

MakesCall == Len(calls') = Len(calls) + 1

RequestsOf(i) == {k \in 1..Len(requests) : requests[k].call = i}

ExpectedMethod(op) ==
    CASE op = "read" -> "GET"
      [] op = "remove" -> "DELETE"
      [] OTHER -> "POST"

ExpectedSuffix(call) ==
    CASE call.op = "query" -> <<"Q", "u", "e", "r", "y">>
      [] call.op = "invoke" -> <<"I", "n", "v", "o", "k", "e", "/">> \o call.target.v
      [] call.op = "create" -> <<"C", "r", "e", "a", "t", "e", "/">> \o call.target.v
      [] call.op = "removeBulk" -> <<"B", "u", "l", "k", "D", "e", "l", "e", "t", "e">>
      [] OTHER -> call.target.v

ExpectedJson(call) ==
    CASE call.op \in {"read", "remove"} -> Obj(Empty)
      [] call.op = "removeBulk" -> Obj([uris |-> call.arg])
      [] OTHER -> call.arg

\* https://{server}:{port}/SolarWinds/InformationService/v3/Json/ of the
\* configuration object o refers to
BaseUrl(o) ==
    Https \o heap[o.v].server.v \o <<":">> \o NumberToString(heap[o.v].port.v) \o JsonPath

\* C1 (as claimed): no operation raises an error synchronously to its caller.
C1_NoSynchronousError ==
    \A i \in 1..Len(calls) : calls[i].threw = "none"

\* C2 (as claimed): every call issues exactly one request, and the callback
\* of a call whose outcome the transport delivered has run exactly once, with
\* the envelope normalized from that outcome.
C2_OneRequestOneCallback ==
    \A i \in 1..Len(calls) :
        /\ Cardinality(RequestsOf(i)) = 1
        /\ \A k \in RequestsOf(i) :
               /\ requests[k].ncb = IF requests[k].done THEN 1 ELSE 0
               /\ (last.call = i) =>
                      /\ requests[k].done
                      /\ Len(last.out.cb) = 1

\* C3 (as claimed): the request an operation issues targets the base URL of
\* the current configuration followed by the operation's suffix, with the
\* operation's method and payload.
C3_RequestTargets ==
    [][ MakesCall /\ CanRead(options[NewCall.client]) =>
            /\ Len(requests') = Len(requests) + 1
            /\ LET r == requests'[Len(requests')] IN
               /\ r.call = Len(calls')
               /\ r.method = ExpectedMethod(NewCall.op)
               /\ r.url = BaseUrl(options[NewCall.client]) \o ExpectedSuffix(NewCall)
               /\ r.options.json = ExpectedJson(NewCall) ]_vars

\* C8: every request carries json = the call's payload, rejectUnauthorized =
\* false and the URL and credentials of the configuration current when the
\* operation was called; setOptions(N) replaces the configuration by N whole,
\* getOptions() then returns N, and a request already issued keeps its URL
\* and credentials.
C8_RequestFromLiveOptions ==
    [][ /\ Len(requests') >= Len(requests)
        /\ \A k \in 1..Len(requests) :
               /\ requests'[k].url = requests[k].url
               /\ requests'[k].options = requests[k].options
        /\ Len(requests') > Len(requests) =>
               /\ MakesCall
               /\ Len(requests') = Len(requests) + 1
               /\ LET r == requests'[Len(requests')]
                      o == options[NewCall.client]
                  IN /\ r.call = Len(calls')
                     /\ r.options.json = ExpectedJson(NewCall)
                     /\ r.options.rejectUnauthorized = FALSE
                     /\ r.options.auth = heap[o.v].auth
                     /\ r.url = BaseUrl(o) \o ExpectedSuffix(NewCall)
        /\ \A c \in Clients, o \in OptionArgs :
               setOptions(c, o) => /\ getOptions(c)' = o
                                   /\ heap' = heap ]_vars

\* a request of client c is still pending, c's configuration was replaced
\* since, and a later request of c carries the new configuration's
\* credentials and URL
C8_Witness ==
    \E k1, k2 \in 1..Len(requests) :
        LET c == calls[requests[k1].call].client IN
        /\ k1 < k2
        /\ ~requests[k1].done
        /\ calls[requests[k2].call].client = c
        /\ calls[requests[k2].call].op = "query"
        /\ calls[requests[k1].call].op = "query"
        /\ CanRead(options[c])
        /\ requests[k2].options.auth = heap[options[c].v].auth
        /\ requests[k2].url = BaseUrl(options[c]) \o <<"Q", "u", "e", "r", "y">>
        /\ requests[k1].options.auth # requests[k2].options.auth
        /\ requests[k1].url # requests[k2].url

\* the configuration instance d uses for its requests
ConfigOf(d) == IF CanRead(options[d]) THEN Obj(heap[options[d].v]) ELSE options[d]

\* a step that is an operation on instance c, or an assignment to the object
\* its getOptions() returned
OperationOn(c) ==
    \/ MakesCall /\ NewCall.client = c
    \/ \E o \in OptionArgs : setOptions(c, o)
    \/ \E a \in Assignments : AssignField(c, a[1], a[2])

\* C9 (as claimed): no operation on one instance changes the configuration
\* another instance uses.
C9_ConfigurationIsolated ==
    [][ \A c \in Clients : OperationOn(c) =>
            \A d \in Clients \ {c} : ConfigOf(d)' = ConfigOf(d) ]_vars

=============================================================================
